---------------------------- MODULE Spec2Model ----------------------------
(***************************************************************************)
(* The flight simulation engine of oogame (src/core/flight_simulator.py,   *)
(* class FlightSimulator) as a state machine.                              *)
(*                                                                         *)
(* Numbers.  Python floats with a fractional part are fixed-point          *)
(* integers with two decimals: an angle of 273.5 degrees is 27350, a       *)
(* fuel level of 100.0 percent is 10000, 180 degrees Fahrenheit is 18000,  *)
(* 120 knots is 12000.  Times (elapsed_time, dt, the wall clock) are whole *)
(* seconds.  The wall clock is the origin of the time axis: time.time() is *)
(* 0 at every read, and last_alert_time is the (negative) distance of the  *)
(* last alert from it, no further back than AlertHorizon seconds.          *)
(*                                                                         *)
(* The float fields whose value the code can drive out of the finite      *)
(* range (heading, drift_rate, the weather's crosswind_component), with    *)
(* target_heading and the float argument of apply_course_correction, are   *)
(* tagged pairs:                                                           *)
(* <<"fin", v>>, <<"nan", 0>>, <<"inf", 1>> and <<"inf", -1>>, with the    *)
(* IEEE-754 rules CPython follows for +, *, abs, % and the comparisons.    *)
(* binary64's finite range is represented by [-FloatMax, FloatMax].        *)
(***************************************************************************)
EXTENDS Integers, Sequences, FiniteSets, TLC

VARIABLES
    sim,     \* the FlightSimulator object: one record, one field per attribute
    twin,    \* a second FlightSimulator object, for the comparison of two
             \* engines driven by the same calls but for set_autopilot
    flights, \* how many flights start_flight has started
    ticks,   \* how many update_flight calls have advanced a flight
    commands, \* how many apply_course_correction and set_autopilot calls
    tick_alerts, \* the alerts the last update_flight that advanced the flight
             \* appended to system_alerts, in order
    call,    \* the last public operation called, with the correction_degrees
             \* of an apply_course_correction
    ret      \* what that call returned or raised

vars == <<sim, twin, flights, ticks, commands, tick_alerts, call, ret>>

(***************************************************************************)
(* Bounds of the model                                                     *)
(***************************************************************************)
\* largest finite magnitude of a float of the model (binary64: 1.8e308)
FloatMax == 1000000
\* an alert older than this many seconds is this many seconds old
AlertHorizon == 11
\* start_flight accepts at most this many flights
MaxFlights == 1
\* update_flight advances a flight at most this many times
MaxTicks == 2
\* update_flight advances the flight of StormSpec at most this many times
StormTicks == 14
\* update_flight advances the flight of HotSpec at most this many times
HotTicks == 6
\* update_flight advances the flight of CatalogueSpec at most this many times
CatalogueTicks == 6
\* at most this many apply_course_correction and set_autopilot calls are made
MaxCommands == 1

(***************************************************************************)
(* Floats                                                                  *)
(***************************************************************************)
Fin(v) == <<"fin", v>>
NaN == <<"nan", 0>>
PosInf == <<"inf", 1>>
NegInf == <<"inf", -1>>

IsFin(x) == x[1] = "fin"
IsNaN(x) == x[1] = "nan"
IsInf(x) == x[1] = "inf"
Val(x) == x[2]

\* a finite result that leaves the finite range becomes an infinity
Overflow(v) ==
    IF v > FloatMax THEN PosInf
    ELSE IF v < -FloatMax THEN NegInf
    ELSE Fin(v)

\* integer quotient rounded toward zero
Quot(a, b) == IF a >= 0 THEN a \div b ELSE -((-a) \div b)

Sign(v) == IF v > 0 THEN 1 ELSE IF v < 0 THEN -1 ELSE 0

\* x + y
FAdd(x, y) ==
    IF IsNaN(x) \/ IsNaN(y) THEN NaN
    ELSE IF IsInf(x) /\ IsInf(y) THEN (IF x = y THEN x ELSE NaN)
    ELSE IF IsInf(x) THEN x
    ELSE IF IsInf(y) THEN y
    ELSE Overflow(Val(x) + Val(y))

FNeg(x) == IF IsNaN(x) THEN NaN ELSE <<x[1], -Val(x)>>

\* x - y
FSub(x, y) == FAdd(x, FNeg(y))

Abs(v) == IF v < 0 THEN -v ELSE v

\* x * (num / den) for a finite factor num / den, den > 0; the product is
\* formed only when it cannot be far outside the finite range
FScale(x, num, den) ==
    IF IsNaN(x) THEN NaN
    ELSE IF IsInf(x) THEN
        (IF num = 0 THEN NaN ELSE <<"inf", Val(x) * Sign(num)>>)
    ELSE IF num = 0 THEN Fin(0)
    ELSE IF Abs(Val(x)) > (FloatMax * den) \div Abs(num) + den
    THEN <<"inf", Sign(Val(x)) * Sign(num)>>
    ELSE Overflow(Quot(Val(x) * num, den))

\* abs(x)
FAbs(x) ==
    IF IsNaN(x) THEN NaN
    ELSE IF IsInf(x) THEN PosInf
    ELSE Fin(IF Val(x) < 0 THEN -Val(x) ELSE Val(x))

\* x > k and x < k for a finite k: every comparison with NaN is false
FGt(x, k) == (IsFin(x) /\ Val(x) > k) \/ x = PosInf
FLt(x, k) == (IsFin(x) /\ Val(x) < k) \/ x = NegInf

\* x % 360 on floats: the result takes the sign of 360; inf % 360 and
\* nan % 360 are nan
FMod360(x) == IF IsFin(x) THEN Fin(Val(x) % 36000) ELSE NaN

\* int(x): truncation toward zero; int(nan) raises ValueError and int(inf)
\* raises OverflowError
IntRaises(x) == ~IsFin(x)
IntOf(x) == Quot(Val(x), 100)

\* a field that is finite and inside [0, 360)
InRange360(x) == IsFin(x) /\ 0 <= Val(x) /\ Val(x) < 36000

Min(a, b) == IF a <= b THEN a ELSE b
Max(a, b) == IF a >= b THEN a ELSE b

(***************************************************************************)
(* Enumerations and flight plans                                           *)
(***************************************************************************)
FlightPhase ==
    <<"preflight", "taxi", "takeoff", "climb", "cruise", "descent",
      "approach", "landing", "taxi_to_gate", "completed">>

\* position of a phase in the FlightPhase enumeration
PhaseIndex(p) == CHOOSE i \in 1..Len(FlightPhase) : FlightPhase[i] = p

WeatherCondition == {"clear", "light_wind", "moderate_wind", "turbulence", "rain"}

\* _get_aircraft_specs with a rotorcraft entry that cruises at 20 knots
GetAircraftSpecsSlowRotorcraft(aircraft_type) ==
    CASE aircraft_type = "MULTI_ENGINE_PROPS" ->
            [cruise_speed |-> 180, cruise_altitude |-> 12000, drift_sensitivity |-> 80]
      [] aircraft_type = "JETS_COMMERCIAL" ->
            [cruise_speed |-> 450, cruise_altitude |-> 35000, drift_sensitivity |-> 50]
      [] aircraft_type = "JETS_MILITARY" ->
            [cruise_speed |-> 500, cruise_altitude |-> 40000, drift_sensitivity |-> 30]
      [] aircraft_type = "SEAPLANES_AMPHIBIANS" ->
            [cruise_speed |-> 140, cruise_altitude |-> 8000, drift_sensitivity |-> 120]
      [] aircraft_type = "HELICOPTERS_ROTORCRAFT" ->
            [cruise_speed |-> 20, cruise_altitude |-> 1500, drift_sensitivity |-> 150]
      [] OTHER ->
            [cruise_speed |-> 120, cruise_altitude |-> 6500, drift_sensitivity |-> 100]

\* drift_sensitivity and cruise data of _get_aircraft_specs, with the
\* fallback to SINGLE_ENGINE_PROPS for an unknown type
GetAircraftSpecs(aircraft_type) ==
    CASE aircraft_type = "MULTI_ENGINE_PROPS" ->
            [cruise_speed |-> 180, cruise_altitude |-> 12000, drift_sensitivity |-> 80]
      [] aircraft_type = "JETS_COMMERCIAL" ->
            [cruise_speed |-> 450, cruise_altitude |-> 35000, drift_sensitivity |-> 50]
      [] aircraft_type = "JETS_MILITARY" ->
            [cruise_speed |-> 500, cruise_altitude |-> 40000, drift_sensitivity |-> 30]
      [] aircraft_type = "SEAPLANES_AMPHIBIANS" ->
            [cruise_speed |-> 140, cruise_altitude |-> 8000, drift_sensitivity |-> 120]
      [] aircraft_type = "HELICOPTERS_ROTORCRAFT" ->
            [cruise_speed |-> 100, cruise_altitude |-> 1500, drift_sensitivity |-> 150]
      [] OTHER ->
            [cruise_speed |-> 120, cruise_altitude |-> 6500, drift_sensitivity |-> 100]

\* A FlightPlan.  dep_lat and dest_lat are the latitudes of departure and
\* destination in whole degrees; azimuth is what atan2 returns for the two
\* endpoints in _calculate_initial_heading, in (-180, 180] degrees.
MakePlan(minutes, aircraft_type, distance_nm, dep_lat, dest_lat, azimuth) ==
    [estimated_time_minutes |-> minutes,
     aircraft_type |-> aircraft_type,
     distance_nm |-> distance_nm,
     cruise_altitude |-> GetAircraftSpecs(aircraft_type).cruise_altitude,
     cruise_speed |-> GetAircraftSpecs(aircraft_type).cruise_speed,
     dep_lat |-> dep_lat,
     dest_lat |-> dest_lat,
     azimuth |-> azimuth]

\* a 162 nm leg: int(162 / 120 * 60) + 20 = 101 minutes
LongPlan == MakePlan(101, "SINGLE_ENGINE_PROPS", 162, 41, 34, -8650)
\* a 0.5 nm hop flown in accelerated mode: main.py divides the 20 minutes by 5
ShortPlan == MakePlan(20 \div 5, "HELICOPTERS_ROTORCRAFT", 1, 41, 41, 1000)

Plans == {LongPlan, ShortPlan}
\* a FlightPlan built by hand, as the tests build theirs, for an aircraft that
\* cruises at 20 knots: the fixed 65 to 120 knots of takeoff, climb and
\* descent are several times its cruise speed
HotPlan == [LongPlan EXCEPT !.cruise_speed = 20]

\* the plan calculate_flight_plan returns for a destination that is the
\* departure: distance 0.0, int(0 / 120 * 60) + 20 = 20 minutes
ZeroPlan == MakePlan(20, "SINGLE_ENGINE_PROPS", 0, 41, 41, 0)

\* Optional[FlightPlan]: None is the empty sequence, a plan p is <<p>>
None == <<>>
Some(p) == <<p>>

(***************************************************************************)
(* Construction                                                            *)
(***************************************************************************)
\* _generate_weather: condition is random.choice; the crosswind is
\* wind_speed * sin(|wind_dir - heading|), drawn here as a whole number of
\* knots, and is NaN when the heading it is computed from is not finite.
\* wind_direction, wind_speed, visibility and temperature are only copied
\* into the status and are left out.
GenerateWeather(condition, crosswind, heading) ==
    [condition |-> condition,
     crosswind_component |-> IF IsFin(heading) THEN Fin(crosswind * 100) ELSE NaN]

\* FlightSimulator.__init__
NewSimulator(condition, crosswind) ==
    [current_flight |-> None,
     flight_phase |-> "preflight",
     is_flying |-> FALSE,
     elapsed_time |-> 0,
     altitude |-> 0,
     airspeed |-> 0,
     heading |-> Fin(0),
     target_heading |-> Fin(0),
     engine_temp |-> 18000,
     fuel_remaining |-> 10000,
     autopilot_enabled |-> FALSE,
     progress_percent |-> 0,
     drift_rate |-> Fin(0),
     off_course_distance |-> 0,
     current_weather |-> GenerateWeather(condition, crosswind, Fin(0)),
     system_alerts |-> <<>>,
     emergency_state |-> FALSE,
     course_deviations |-> 0,
     system_alerts_count |-> 0,
     last_alert_time |-> -AlertHorizon]


(***************************************************************************)
(* The steps of update_flight, each a function of the simulator record     *)
(***************************************************************************)
Plan(s) == s.current_flight[1]

\* _update_flight_phase with the TAKEOFF and CLIMB branches assigning each
\* other's phase
UpdateFlightPhaseSwapped(s) ==
    IF s.current_flight = None THEN s
    ELSE
        LET total_time == Plan(s).estimated_time_minutes * 60
            e == s.elapsed_time
        IN  IF e < 180 THEN [s EXCEPT !.flight_phase = "taxi"]
            ELSE IF e < 300 THEN [s EXCEPT !.flight_phase = "climb"]
            ELSE IF e < 900 THEN [s EXCEPT !.flight_phase = "takeoff"]
            ELSE IF e < total_time - 900 THEN [s EXCEPT !.flight_phase = "cruise"]
            ELSE IF e < total_time - 300 THEN [s EXCEPT !.flight_phase = "descent"]
            ELSE IF e < total_time - 120 THEN [s EXCEPT !.flight_phase = "approach"]
            ELSE IF e < total_time THEN [s EXCEPT !.flight_phase = "landing"]
            ELSE [s EXCEPT !.flight_phase = "completed", !.is_flying = FALSE]

\* _update_flight_phase with an else branch that leaves is_flying set
UpdateFlightPhaseStillFlying(s) ==
    IF s.current_flight = None THEN s
    ELSE
        LET total_time == Plan(s).estimated_time_minutes * 60
            e == s.elapsed_time
        IN  IF e < 180 THEN [s EXCEPT !.flight_phase = "taxi"]
            ELSE IF e < 300 THEN [s EXCEPT !.flight_phase = "takeoff"]
            ELSE IF e < 900 THEN [s EXCEPT !.flight_phase = "climb"]
            ELSE IF e < total_time - 900 THEN [s EXCEPT !.flight_phase = "cruise"]
            ELSE IF e < total_time - 300 THEN [s EXCEPT !.flight_phase = "descent"]
            ELSE IF e < total_time - 120 THEN [s EXCEPT !.flight_phase = "approach"]
            ELSE IF e < total_time THEN [s EXCEPT !.flight_phase = "landing"]
            ELSE [s EXCEPT !.flight_phase = "completed"]

\* _update_flight_phase testing the end of the flight before the other rows
UpdateFlightPhaseCompletedFirst(s) ==
    IF s.current_flight = None THEN s
    ELSE
        LET total_time == Plan(s).estimated_time_minutes * 60
            e == s.elapsed_time
        IN  IF e >= total_time THEN [s EXCEPT !.flight_phase = "completed", !.is_flying = FALSE]
            ELSE IF e < 180 THEN [s EXCEPT !.flight_phase = "taxi"]
            ELSE IF e < 300 THEN [s EXCEPT !.flight_phase = "takeoff"]
            ELSE IF e < 900 THEN [s EXCEPT !.flight_phase = "climb"]
            ELSE IF e < total_time - 900 THEN [s EXCEPT !.flight_phase = "cruise"]
            ELSE IF e < total_time - 300 THEN [s EXCEPT !.flight_phase = "descent"]
            ELSE IF e < total_time - 120 THEN [s EXCEPT !.flight_phase = "approach"]
            ELSE [s EXCEPT !.flight_phase = "landing"]

\* _update_flight_phase: the first threshold elapsed_time is below decides
UpdateFlightPhase(s) ==
    IF s.current_flight = None THEN s
    ELSE
        LET total_time == Plan(s).estimated_time_minutes * 60
            e == s.elapsed_time
        IN  IF e < 180 THEN [s EXCEPT !.flight_phase = "taxi"]
            ELSE IF e < 300 THEN [s EXCEPT !.flight_phase = "takeoff"]
            ELSE IF e < 900 THEN [s EXCEPT !.flight_phase = "climb"]
            ELSE IF e < total_time - 900 THEN [s EXCEPT !.flight_phase = "cruise"]
            ELSE IF e < total_time - 300 THEN [s EXCEPT !.flight_phase = "descent"]
            ELSE IF e < total_time - 120 THEN [s EXCEPT !.flight_phase = "approach"]
            ELSE IF e < total_time THEN [s EXCEPT !.flight_phase = "landing"]
            ELSE [s EXCEPT !.flight_phase = "completed", !.is_flying = FALSE]

\* the fuel burn without the max(0, ...) clamp
BurnFuelUnclamped(s, dt) ==
    IF s.flight_phase \notin {"taxi", "completed"}
    THEN [s EXCEPT !.fuel_remaining = s.fuel_remaining - 2 * dt]
    ELSE s

\* the fuel burn of _update_aircraft_state: 0.02 percent per second outside
\* TAXI and COMPLETED, clamped at 0
BurnFuel(s, dt) ==
    IF s.flight_phase \notin {"taxi", "completed"}
    THEN [s EXCEPT !.fuel_remaining = Max(0, s.fuel_remaining - 2 * dt)]
    ELSE s

\* _update_aircraft_state: airspeed and altitude by phase, then the fuel burn
UpdateAircraftState(s, dt) ==
    LET p == s.flight_phase
        s1 ==
            CASE p = "taxi" -> [s EXCEPT !.airspeed = 1500]
              [] p = "takeoff" ->
                    [s EXCEPT !.airspeed = 6500, !.altitude = s.altitude + 500 * dt]
              [] p = "climb" ->
                    [s EXCEPT !.airspeed = 9000,
                              !.altitude = IF s.altitude < Plan(s).cruise_altitude
                                           THEN s.altitude + 300 * dt
                                           ELSE s.altitude]
              [] p = "cruise" -> [s EXCEPT !.airspeed = Plan(s).cruise_speed * 100]
              [] p = "descent" ->
                    [s EXCEPT !.airspeed = 12000, !.altitude = s.altitude - 400 * dt]
              [] p = "approach" ->
                    [s EXCEPT !.airspeed = 8000, !.altitude = s.altitude - 200 * dt]
              [] p = "landing" ->
                    [s EXCEPT !.airspeed = 6000,
                              !.altitude = IF s.altitude > Plan(s).dest_lat * 100
                                           THEN s.altitude - 100 * dt
                                           ELSE s.altitude]
              [] OTHER -> s
    IN  BurnFuel(s1, dt)

\* the last n entries of a list: alerts[-n:]
Tail_n(alerts, n) ==
    IF Len(alerts) <= n THEN alerts
    ELSE SubSeq(alerts, Len(alerts) - n + 1, Len(alerts))

\* '"text" not in str(alerts[-n:])': no alert text contains another, except
\* that the probe "Autopilot reducing speed" is the head of one alert
Among(text, alerts, n) ==
    \E i \in 1..Len(Tail_n(alerts, n)) : Tail_n(alerts, n)[i] = text

\* the minimal angular distance between heading and target_heading
HeadingError(heading, target_heading) ==
    LET e == FAbs(FSub(heading, target_heading))
    IN  IF FGt(e, 18000) THEN FSub(Fin(36000), e) ELSE e

\* the heading after the drift of one tick (lines 339-350)
DriftHeading(s, dt) ==
    LET base_drift ==
            FScale(FScale(s.drift_rate, dt, 1), IF s.autopilot_enabled THEN 3 ELSE 5, 10)
        wind_effect ==
            FScale(FScale(s.current_weather.crosswind_component,
                          IF s.autopilot_enabled THEN 1 ELSE 2, 100), dt, 1)
        total_drift == FAdd(base_drift, wind_effect)
    IN  FMod360(FAdd(s.heading, total_drift))

\* the course-deviation bookkeeping of one tick (lines 352-381)
CourseDeviation(s, dt, current_time) ==
    LET heading_error == HeadingError(s.heading, s.target_heading)
        warning_threshold == IF s.autopilot_enabled THEN 3000 ELSE 2000
        critical_threshold == IF s.autopilot_enabled THEN 6000 ELSE 4500
        s1 == [s EXCEPT !.off_course_distance = s.off_course_distance + 3 * dt]
        s2 == [s1 EXCEPT !.course_deviations = s.course_deviations + 1]
        appended ==
            IF ~s.autopilot_enabled
            THEN Append(s.system_alerts, "Course deviation warning")
            ELSE IF FGt(heading_error, 9000)
            THEN Append(s.system_alerts, "Autopilot course correction")
            ELSE s.system_alerts
        s3 == [s2 EXCEPT !.last_alert_time = current_time,
                         !.system_alerts = IF Len(appended) > 10
                                           THEN Tail_n(appended, 5)
                                           ELSE appended]
    IN  IF ~FGt(heading_error, warning_threshold) THEN s
        ELSE IF ~FGt(heading_error, critical_threshold) THEN s1
        ELSE IF ~(current_time - s.last_alert_time > 10) THEN s2
        ELSE s3

\* _apply_drift_mechanics without the early return of lines 336-337
ApplyDriftMechanicsInEveryPhase(s, dt, current_time) ==
    CourseDeviation([s EXCEPT !.heading = DriftHeading(s, dt)], dt, current_time)

\* _apply_drift_mechanics
ApplyDriftMechanics(s, dt, current_time) ==
    IF s.flight_phase \in {"taxi", "takeoff", "landing"} THEN s
    ELSE CourseDeviation([s EXCEPT !.heading = DriftHeading(s, dt)], dt, current_time)


\* the heading control turning by the full correction_rate * dt whatever the
\* error is
AutopilotHeadingFullRate(s, dt) ==
    LET raw == FSub(s.target_heading, s.heading)
        heading_error ==
            IF FGt(raw, 18000) THEN FSub(raw, Fin(36000))
            ELSE IF FLt(raw, -18000) THEN FAdd(raw, Fin(36000))
            ELSE raw
        max_correction == 150 * dt
        correction ==
            IF FGt(heading_error, 0) THEN Fin(max_correction) ELSE Fin(-max_correction)
    IN  IF s.flight_phase \in {"climb", "cruise", "descent", "approach"}
           /\ FGt(FAbs(heading_error), 20)
        THEN FMod360(FAdd(s.heading, correction))
        ELSE s.heading

\* the heading control of _apply_autopilot_correction (lines 499-520)
AutopilotHeading(s, dt) ==
    LET raw == FSub(s.target_heading, s.heading)
        heading_error ==
            IF FGt(raw, 18000) THEN FSub(raw, Fin(36000))
            ELSE IF FLt(raw, -18000) THEN FAdd(raw, Fin(36000))
            ELSE raw
        max_correction == 150 * dt
        correction ==
            IF FGt(heading_error, 0)
            THEN Fin(Min(Val(heading_error), max_correction))
            ELSE Fin(Max(Val(heading_error), -max_correction))
    IN  IF s.flight_phase \in {"climb", "cruise", "descent", "approach"}
           /\ FGt(FAbs(heading_error), 20)
        THEN FMod360(FAdd(s.heading, correction))
        ELSE s.heading

\* the speed control of _apply_autopilot_correction (lines 522-574)
AutopilotSpeed(s, dt) ==
    LET p == s.flight_phase
        temp_error == s.engine_temp - 20000
        base_speed ==
            IF p = "cruise" /\ s.current_flight # None THEN Plan(s).cruise_speed * 100
            ELSE IF p = "climb" THEN 9000
            ELSE IF p = "descent" THEN 12000
            ELSE IF p = "approach" THEN 8000
            ELSE s.airspeed
        target_speed ==
            IF temp_error > 2000 THEN Quot(base_speed * 85, 100)
            ELSE IF temp_error > 1000 THEN Quot(base_speed * 92, 100)
            ELSE IF temp_error < -1500 THEN Quot(base_speed * 105, 100)
            ELSE base_speed
        alerts ==
            IF temp_error > 2000
               /\ (Len(s.system_alerts) = 0
                   \/ ~Among("Autopilot reducing speed for cooling", s.system_alerts, 5))
            THEN Append(s.system_alerts, "Autopilot reducing speed for cooling")
            ELSE s.system_alerts
        speed_error == target_speed - s.airspeed
        max_speed_change == 1000 * dt
        speed_change ==
            IF speed_error > 0 THEN Min(speed_error, max_speed_change)
            ELSE Max(speed_error, -max_speed_change)
        new_speed == s.airspeed + speed_change
        limited ==
            IF p = "cruise"
            THEN Max(8000, Min(new_speed, Quot(Plan(s).cruise_speed * 100 * 11, 10)))
            ELSE IF p = "climb" THEN Max(7000, Min(new_speed, 12000))
            ELSE IF p = "descent" THEN Max(9000, Min(new_speed, 15000))
            ELSE IF p = "approach" THEN Max(6500, Min(new_speed, 10000))
            ELSE new_speed
        abs_error == IF speed_error < 0 THEN -speed_error ELSE speed_error
    IN  [s EXCEPT !.system_alerts = alerts,
                  !.airspeed = IF abs_error > 100 THEN limited ELSE s.airspeed]

\* _apply_autopilot_correction
ApplyAutopilotCorrection(s, dt) ==
    IF ~s.autopilot_enabled THEN s
    ELSE AutopilotSpeed([s EXCEPT !.heading = AutopilotHeading(s, dt)], dt)

\* _update_position divides by the plan's distance_nm: ZeroDivisionError
PositionRaises(s) == Plan(s).distance_nm = 0

\* _update_position.  The position is not kept: progress is the distance from
\* the departure over the planned distance, capped at 100, a value the
\* geometry decides and the model draws; with a heading that is NaN the
\* position is NaN and min(100, nan) is 100.
UpdatePosition(s, progress) ==
    [s EXCEPT !.progress_percent = IF IsFin(s.heading) THEN progress ELSE 10000]

\* the engine temperature step without the max(160, min(250, ...)) clamp
EngineTempUnclamped(s, noise) ==
    LET target_temp_base == IF s.flight_phase \in {"takeoff", "climb"} THEN 20000 ELSE 18000
        target_temp ==
            IF s.current_flight # None
            THEN target_temp_base + Quot(s.airspeed * 40, Plan(s).cruise_speed) - 4000
            ELSE target_temp_base
        temp_diff == target_temp - s.engine_temp
        temp_change == Quot(temp_diff, 10) + noise
    IN  s.engine_temp + temp_change

\* the engine temperature step of _check_systems (lines 425-450); noise is
\* the draw of random.uniform(-0.5, 0.5)
EngineTemp(s, noise) ==
    LET target_temp_base == IF s.flight_phase \in {"takeoff", "climb"} THEN 20000 ELSE 18000
        target_temp ==
            IF s.current_flight # None
            THEN target_temp_base + Quot(s.airspeed * 40, Plan(s).cruise_speed) - 4000
            ELSE target_temp_base
        temp_diff == target_temp - s.engine_temp
        temp_change == Quot(temp_diff, 10) + noise
    IN  Max(16000, Min(25000, s.engine_temp + temp_change))

\* the temperature warnings of _check_systems (lines 452-460)
TemperatureAlerts(s) ==
    IF s.engine_temp > 23000 THEN
        IF ~Among("Engine temperature high", s.system_alerts, 3)
        THEN [s EXCEPT !.system_alerts = Append(s.system_alerts, "Engine temperature high"),
                       !.system_alerts_count = s.system_alerts_count + 1]
        ELSE s
    ELSE IF s.engine_temp > 24000 THEN
        IF ~Among("ENGINE OVERHEATING", s.system_alerts, 3)
        THEN [s EXCEPT !.system_alerts = Append(s.system_alerts, "ENGINE OVERHEATING"),
                       !.system_alerts_count = s.system_alerts_count + 1]
        ELSE s
    ELSE s

\* the fuel checks of _check_systems (lines 462-470)
FuelAlerts(s) ==
    LET s1 == IF s.fuel_remaining < 2000 /\ ~Among("Low fuel warning", s.system_alerts, 3)
              THEN [s EXCEPT !.system_alerts = Append(s.system_alerts, "Low fuel warning")]
              ELSE s
    IN  IF s1.fuel_remaining < 500
        THEN [s1 EXCEPT !.emergency_state = TRUE,
                        !.system_alerts =
                            IF ~Among("FUEL EMERGENCY", s1.system_alerts, 3)
                            THEN Append(s1.system_alerts, "FUEL EMERGENCY")
                            ELSE s1.system_alerts]
        ELSE s1

\* _check_systems
CheckSystems(s, noise) ==
    FuelAlerts(TemperatureAlerts([s EXCEPT !.engine_temp = EngineTemp(s, noise)]))

\* _update_weather_effects: regenerate is the draw random.random() < 0.001
UpdateWeatherEffects(s, regenerate, condition, crosswind) ==
    LET weather == IF regenerate
                   THEN GenerateWeather(condition, crosswind, s.heading)
                   ELSE s.current_weather
        drift_rate ==
            IF weather.condition = "turbulence" THEN FScale(s.drift_rate, 15, 10)
            ELSE IF weather.condition = "moderate_wind" THEN FScale(s.drift_rate, 12, 10)
            ELSE s.drift_rate
    IN  [s EXCEPT !.current_weather = weather, !.drift_rate = drift_rate]

\* _get_status converts five fields with int(); of these only heading can be
\* non-finite here
StatusRaises(s) == IntRaises(s.heading) \/ IntRaises(s.target_heading)

\* the snapshot _get_status returns
GetStatus(s) ==
    [is_flying |-> s.is_flying,
     flight_phase |-> s.flight_phase,
     elapsed_time |-> s.elapsed_time,
     progress_percent |-> s.progress_percent,
     altitude |-> s.altitude,
     airspeed |-> Quot(s.airspeed, 100),
     heading |-> IntOf(s.heading),
     target_heading |-> IntOf(s.target_heading),
     engine_temp |-> Quot(s.engine_temp, 100),
     fuel_remaining |-> s.fuel_remaining,
     off_course_distance |-> s.off_course_distance,
     system_alerts |-> s.system_alerts,
     emergency_state |-> s.emergency_state,
     weather |-> [condition |-> s.current_weather.condition],
     performance |-> [course_deviations |-> s.course_deviations,
                      alerts_count |-> s.system_alerts_count]]

\* what a call hands back: a value, or the exception that left it
Returned(kind, value) == [kind |-> kind, value |-> value]
Raised(exception) == [kind |-> "raised", value |-> exception]

\* return self._get_status()
ReturnStatus(s) ==
    IF StatusRaises(s) THEN Raised("ValueError") ELSE Returned("status", GetStatus(s))


(***************************************************************************)
(* Inputs and draws of the model                                           *)
(***************************************************************************)
\* dt of update_flight, in seconds
DtSet == {0, 200, 2800, 5800}
\* wall-clock seconds that pass between two reads of time.time()
WallSet == {0, 11}
\* random.uniform(-0.5, 0.5) of _check_systems
NoiseSet == {50}
\* random.uniform(0.1, 0.3) of start_flight
DriftDrawSet == {30}
\* the condition and the crosswind, in knots, of a generated weather
ConditionSet == {"clear", "turbulence"}
CrosswindSet == {25}
\* the weather draw of one tick: none, or a regenerated weather
WeatherDrawSet ==
    {[regenerate |-> FALSE, condition |-> "clear", crosswind |-> 0]}
    \cup [regenerate : {TRUE}, condition : {"turbulence"}, crosswind : CrosswindSet]
\* progress_percent as _update_position computes it
ProgressSet == {5000}
\* correction_degrees of apply_course_correction
FiniteDeltaSet == {Fin(-2000)}
NonFiniteDeltaSet == {NaN, PosInf}

(***************************************************************************)
(* The public operations                                                   *)
(***************************************************************************)
\* _calculate_initial_heading: (degrees(atan2(y, x)) + 360) % 360
CalculateInitialHeading(s) ==
    IF s.current_flight = None THEN Fin(0)
    ELSE FMod360(FAdd(Fin(Plan(s).azimuth), Fin(36000)))

\* the state start_flight leaves when it accepts the plan (lines 191-220)
StartedFlight(s, flight_plan, drift_draw, condition, crosswind) ==
    LET s1 == [s EXCEPT !.current_flight = Some(flight_plan)]
        heading == CalculateInitialHeading(s1)
    IN  [s1 EXCEPT
            !.flight_phase = "preflight",
            !.is_flying = TRUE,
            !.elapsed_time = 0,
            !.altitude = flight_plan.dep_lat * 100,
            !.airspeed = 0,
            !.heading = heading,
            !.target_heading = heading,
            !.engine_temp = 18000,
            !.fuel_remaining = 10000,
            !.progress_percent = 0,
            !.drift_rate =
                FScale(Fin(drift_draw),
                       GetAircraftSpecs(flight_plan.aircraft_type).drift_sensitivity, 100),
            !.current_weather = GenerateWeather(condition, crosswind, heading),
            !.system_alerts = <<>>,
            !.emergency_state = FALSE,
            !.course_deviations = 0,
            !.system_alerts_count = 0,
            !.last_alert_time = -AlertHorizon]

\* start_flight without the is_flying guard: a flight in progress is replaced
start_flight_restarting(flight_plan, drift_draw, condition, crosswind) ==
    /\ call' = [op |-> "start_flight", arg |-> Fin(0)]
    /\ ret' = Returned("bool", TRUE)
    /\ sim' = StartedFlight(sim, flight_plan, drift_draw, condition, crosswind)
    /\ tick_alerts' = <<>>

\* start_flight refusing also while a plan is still in place
start_flight_needing_no_plan(flight_plan, drift_draw, condition, crosswind) ==
    /\ call' = [op |-> "start_flight", arg |-> Fin(0)]
    /\ IF sim.is_flying \/ sim.current_flight # None
       THEN /\ ret' = Returned("bool", FALSE)
            /\ sim' = sim
            /\ UNCHANGED tick_alerts
       ELSE /\ ret' = Returned("bool", TRUE)
            /\ sim' = StartedFlight(sim, flight_plan, drift_draw, condition, crosswind)
            /\ tick_alerts' = <<>>

\* start_flight(flight_plan)
start_flight(flight_plan, drift_draw, condition, crosswind) ==
    /\ call' = [op |-> "start_flight", arg |-> Fin(0)]
    /\ IF sim.is_flying
       THEN /\ ret' = Returned("bool", FALSE)
            /\ sim' = sim
            /\ UNCHANGED tick_alerts
       ELSE /\ ret' = Returned("bool", TRUE)
            /\ sim' = StartedFlight(sim, flight_plan, drift_draw, condition, crosswind)
            /\ tick_alerts' = <<>>

\* wall seconds pass on the wall clock
WallClock(s, wall) ==
    [s EXCEPT !.last_alert_time = Max(-AlertHorizon, s.last_alert_time - wall)]

\* the whole of one update tick on a flying simulator (lines 249-271), up to
\* the step that raises, if one does
TickUntilPosition(s, dt, current_time) ==
    ApplyAutopilotCorrection(
        ApplyDriftMechanics(
            UpdateAircraftState(
                UpdateFlightPhase([s EXCEPT !.elapsed_time = s.elapsed_time + dt]), dt),
            dt, current_time),
        dt)

\* the entries a step appended to the alert list; a step that trims the list
\* (line 381) has appended exactly one entry
NewAlerts(before, after) ==
    IF after = before THEN <<>>
    ELSE IF Len(after) > Len(before) THEN SubSeq(after, Len(before) + 1, Len(after))
    ELSE <<after[Len(after)]>>

\* the alerts of one tick up to _update_position: those of the drift step and
\* those of the autopilot
TickAlertsUntilPosition(s, dt, current_time) ==
    LET s3 == UpdateAircraftState(
                  UpdateFlightPhase([s EXCEPT !.elapsed_time = s.elapsed_time + dt]), dt)
        s4 == ApplyDriftMechanics(s3, dt, current_time)
        s5 == ApplyAutopilotCorrection(s4, dt)
    IN  NewAlerts(s3.system_alerts, s4.system_alerts)
        \o NewAlerts(s4.system_alerts, s5.system_alerts)

TickAfterPosition(s, noise, weather_draw, progress) ==
    UpdateWeatherEffects(
        CheckSystems(UpdatePosition(s, progress), noise),
        weather_draw.regenerate, weather_draw.condition, weather_draw.crosswind)

\* update_flight(dt); wall is the wall-clock time since the last tick
update_flight(dt, wall, noise, weather_draw, progress) ==
    /\ call' = [op |-> "update_flight", arg |-> Fin(0)]
    /\ IF ~sim.is_flying \/ sim.current_flight = None
       THEN /\ sim' = sim
            /\ ret' = ReturnStatus(sim)
            /\ UNCHANGED tick_alerts
       ELSE LET current_time == 0
                s5 == TickUntilPosition(WallClock(sim, wall), dt, current_time)
                s8 == TickAfterPosition(s5, noise, weather_draw, progress)
            IN  IF PositionRaises(s5)
                THEN /\ sim' = s5
                     /\ ret' = Raised("ZeroDivisionError")
                     /\ tick_alerts' = TickAlertsUntilPosition(WallClock(sim, wall), dt, current_time)
                ELSE /\ sim' = s8
                     /\ ret' = ReturnStatus(s8)
                     /\ tick_alerts' =
                            TickAlertsUntilPosition(WallClock(sim, wall), dt, current_time)
                            \o NewAlerts(s5.system_alerts, s8.system_alerts)

\* the state update_flight(dt) leaves a simulator s in (lines 244-273)
UpdatedFlight(s, dt, wall, noise, weather_draw, progress) ==
    IF ~s.is_flying \/ s.current_flight = None
    THEN s
    ELSE LET current_time == 0
             s5 == TickUntilPosition(WallClock(s, wall), dt, current_time)
         IN  IF PositionRaises(s5)
             THEN s5
             ELSE TickAfterPosition(s5, noise, weather_draw, progress)

\* apply_course_correction(correction_degrees)
apply_course_correction(correction_degrees) ==
    /\ call' = [op |-> "apply_course_correction", arg |-> correction_degrees]
    /\ UNCHANGED tick_alerts
    /\ sim' = [sim EXCEPT !.heading = FMod360(FAdd(sim.heading, correction_degrees))]
    /\ ret' = Returned("none", FALSE)

\* set_autopilot(enabled)
set_autopilot(enabled) ==
    /\ call' = [op |-> "set_autopilot", arg |-> Fin(0)]
    /\ UNCHANGED tick_alerts
    /\ sim' = [sim EXCEPT !.autopilot_enabled = enabled]
    /\ ret' = Returned("none", FALSE)

\* _get_status handing out the alert list and emptying it
get_status_draining ==
    /\ call' = [op |-> "_get_status", arg |-> Fin(0)]
    /\ UNCHANGED tick_alerts
    /\ sim' = [sim EXCEPT !.system_alerts = <<>>]
    /\ ret' = ReturnStatus(sim)

\* _get_status(), the accessor the flight UI polls
get_status ==
    /\ call' = [op |-> "_get_status", arg |-> Fin(0)]
    /\ UNCHANGED tick_alerts
    /\ sim' = sim
    /\ ret' = ReturnStatus(sim)

\* the summary end_flight returns for an active flight
Performance(s) ==
    [completed |-> s.flight_phase = "completed",
     flight_time |-> s.elapsed_time,
     course_deviations |-> s.course_deviations,
     system_alerts |-> s.system_alerts_count,
     emergency_landing |-> s.emergency_state,
     final_progress |-> s.progress_percent]

\* end_flight without the is_flying guard: it always closes and summarises
end_flight_unguarded ==
    /\ call' = [op |-> "end_flight", arg |-> Fin(0)]
    /\ UNCHANGED tick_alerts
    /\ ret' = Returned("summary", Performance(sim))
    /\ sim' = [sim EXCEPT !.is_flying = FALSE, !.current_flight = None]

\* end_flight that also clears emergency_state when it closes the flight
end_flight_clearing_emergency ==
    /\ call' = [op |-> "end_flight", arg |-> Fin(0)]
    /\ UNCHANGED tick_alerts
    /\ IF ~sim.is_flying
       THEN /\ ret' = Returned("empty", FALSE)
            /\ sim' = sim
       ELSE /\ ret' = Returned("summary", Performance(sim))
            /\ sim' = [sim EXCEPT !.is_flying = FALSE, !.current_flight = None,
                                  !.emergency_state = FALSE]

\* end_flight guarded by current_flight instead of is_flying
end_flight_guarded_by_plan ==
    /\ call' = [op |-> "end_flight", arg |-> Fin(0)]
    /\ UNCHANGED tick_alerts
    /\ IF sim.current_flight = None
       THEN /\ ret' = Returned("empty", FALSE)
            /\ sim' = sim
       ELSE /\ ret' = Returned("summary", Performance(sim))
            /\ sim' = [sim EXCEPT !.is_flying = FALSE, !.current_flight = None]

\* end_flight()
end_flight ==
    /\ call' = [op |-> "end_flight", arg |-> Fin(0)]
    /\ UNCHANGED tick_alerts
    /\ IF ~sim.is_flying
       THEN /\ ret' = Returned("empty", FALSE)
            /\ sim' = sim
       ELSE /\ ret' = Returned("summary", Performance(sim))
            /\ sim' = [sim EXCEPT !.is_flying = FALSE, !.current_flight = None]

(***************************************************************************)
(* The calls a run makes, within the bounds of the model                   *)
(***************************************************************************)
Flying == sim.is_flying /\ sim.current_flight # None

\* a start_flight call; one that starts a flight counts against max_flights
StartCall(max_flights, plans, drift_draws, conditions, crosswinds) ==
    /\ sim.is_flying \/ flights < max_flights
    /\ \E flight_plan \in plans, drift_draw \in drift_draws,
          condition \in conditions, crosswind \in crosswinds :
            start_flight(flight_plan, drift_draw, condition, crosswind)
    /\ flights' = IF sim.is_flying THEN flights ELSE flights + 1
    /\ UNCHANGED <<ticks, commands, twin>>

\* an update_flight call; one that advances a flight counts against max_ticks
TickCall(max_ticks, dts, walls, noises, weather_draws, progresses) ==
    /\ ~Flying \/ ticks < max_ticks
    /\ \E dt \in dts, wall \in walls, noise \in noises,
          weather_draw \in weather_draws, progress \in progresses :
            update_flight(dt, wall, noise, weather_draw, progress)
    /\ ticks' = IF Flying THEN ticks + 1 ELSE ticks
    /\ UNCHANGED <<flights, commands, twin>>

\* an apply_course_correction call
CorrectionCall(max_commands, deltas) ==
    /\ commands < max_commands
    /\ \E correction_degrees \in deltas : apply_course_correction(correction_degrees)
    /\ commands' = commands + 1
    /\ UNCHANGED <<flights, ticks, twin>>

\* a set_autopilot call
AutopilotCall(max_commands) ==
    /\ commands < max_commands
    /\ \E enabled \in BOOLEAN : set_autopilot(enabled)
    /\ commands' = commands + 1
    /\ UNCHANGED <<flights, ticks, twin>>

StatusCall == get_status /\ UNCHANGED <<flights, ticks, commands, twin>>

EndCall == end_flight /\ UNCHANGED <<flights, ticks, commands, twin>>

(***************************************************************************)
(* The specification: every public operation, in any order                 *)
(***************************************************************************)
\* the engine as constructed; time.time() is far above the 10 seconds the
\* alert rate limit compares with
InitWith(conditions, crosswinds) ==
    /\ \E condition \in conditions, crosswind \in crosswinds :
            sim = NewSimulator(condition, crosswind)
    /\ \E crosswind \in crosswinds : twin = NewSimulator("clear", crosswind)
    /\ flights = 0
    /\ ticks = 0
    /\ commands = 0
    /\ tick_alerts = <<>>
    /\ call = [op |-> "__init__", arg |-> Fin(0)]
    /\ ret = Returned("none", FALSE)

Init == InitWith(ConditionSet, CrosswindSet)

Next ==
    \/ StartCall(MaxFlights, Plans, DriftDrawSet, ConditionSet, CrosswindSet)
    \/ TickCall(MaxTicks, DtSet, WallSet, NoiseSet, WeatherDrawSet, ProgressSet)
    \/ CorrectionCall(MaxCommands, FiniteDeltaSet \cup NonFiniteDeltaSet)
    \/ AutopilotCall(MaxCommands)
    \/ EndCall

Spec == Init /\ [][Next]_vars

(***************************************************************************)
(* A second specification: one long flight in turbulence, driven by        *)
(* start_flight and update_flight alone with finite inputs                 *)
(***************************************************************************)
StormDtSet == {0, 200}
StormDrawSet == {[regenerate |-> FALSE, condition |-> "clear", crosswind |-> 0]}

StormInit == InitWith({"turbulence"}, {25})

StormNext ==
    \/ StartCall(1, {LongPlan}, {30}, {"turbulence"}, {25})
    \/ TickCall(StormTicks, StormDtSet, {0}, {0}, StormDrawSet, {5000})
    \/ StatusCall

StormSpec == StormInit /\ [][StormNext]_vars

(***************************************************************************)
(* A third specification: one flight of the slow aircraft of HotPlan, whose *)
(* engine runs hot outside the cruise                                      *)
(***************************************************************************)
HotDtSet == {0, 200, 4600}

HotInit == InitWith({"clear"}, CrosswindSet)

HotNext ==
    \/ StartCall(1, {HotPlan}, DriftDrawSet, {"clear"}, CrosswindSet)
    \/ TickCall(HotTicks, HotDtSet, WallSet, NoiseSet, StormDrawSet, ProgressSet)

HotSpec == HotInit /\ [][HotNext]_vars

(***************************************************************************)
(* A fourth specification: two engines in turbulence, started with the     *)
(* same plan and the same random draws and driven by the same ticks; sim   *)
(* flies with the autopilot engaged and twin without                       *)
(***************************************************************************)
PairTicks == 10

PairDtSet == {20, 200}

PairInit == InitWith({"turbulence"}, CrosswindSet)

\* start_flight on both engines
PairStartCall ==
    /\ ~sim.is_flying
    /\ flights < 1
    /\ \E drift_draw \in DriftDrawSet, crosswind \in CrosswindSet :
            /\ start_flight(LongPlan, drift_draw, "turbulence", crosswind)
            /\ twin' = StartedFlight(twin, LongPlan, drift_draw, "turbulence", crosswind)
    /\ flights' = flights + 1
    /\ UNCHANGED <<ticks, commands>>

\* set_autopilot(True) on sim, before the first tick
PairAutopilotCall ==
    /\ Flying
    /\ ticks = 0
    /\ ~sim.autopilot_enabled
    /\ set_autopilot(TRUE)
    /\ UNCHANGED <<flights, ticks, commands, twin>>

\* update_flight(dt) on both engines, with the same random draws
PairTickCall ==
    /\ Flying
    /\ sim.autopilot_enabled
    /\ ticks < PairTicks
    /\ \E dt \in PairDtSet, wall \in WallSet, noise \in NoiseSet,
          weather_draw \in StormDrawSet, progress \in ProgressSet :
            /\ update_flight(dt, wall, noise, weather_draw, progress)
            /\ twin' = UpdatedFlight(twin, dt, wall, noise, weather_draw, progress)
    /\ ticks' = ticks + 1
    /\ UNCHANGED <<flights, commands>>

PairNext ==
    \/ PairStartCall
    \/ PairAutopilotCall
    \/ PairTickCall

PairSpec == PairInit /\ [][PairNext]_vars

(***************************************************************************)
(* A fifth specification: flights flown one after the other on the same    *)
(* engine, each ended by end_flight or by reaching its destination         *)
(***************************************************************************)
RestartFlights == 2
RestartTicks == 3

RestartDtSet == {200, 2800}

RestartInit == InitWith({"clear"}, CrosswindSet)

RestartNext ==
    \/ StartCall(RestartFlights, Plans \cup {ZeroPlan}, DriftDrawSet, ConditionSet, CrosswindSet)
    \/ TickCall(RestartTicks, RestartDtSet, WallSet, NoiseSet, StormDrawSet, ProgressSet)
    \/ EndCall

RestartSpec == RestartInit /\ [][RestartNext]_vars

(***************************************************************************)
(* A sixth specification: the steps of a tick called one by one on a       *)
(* flight whose fields were assigned directly after start_flight, the way  *)
(* the unit tests of the steps drive them                                  *)
(***************************************************************************)
StepTicks == 2

StepDtSet == {0, 1, 20}

\* headings at and around the thresholds of the autopilot and of the course
\* bookkeeping, as distances from the target heading
StepOffsetSet ==
    {0, 20, 21, -21, 1000, 2000, 2001, 3000, 3001, 4500, 4501, -4501,
     6000, 6001, 9000, 9001, 17900, -17900, 18000}

StepPhaseSet == {"takeoff", "climb", "cruise", "descent", "approach"}

StepInit ==
    /\ \E offset \in StepOffsetSet, phase \in StepPhaseSet, enabled \in BOOLEAN :
            LET s == StartedFlight(NewSimulator("clear", 25), LongPlan, 30, "clear", 25)
            IN  sim = [s EXCEPT !.heading = FMod360(FAdd(s.target_heading, Fin(offset))),
                                !.flight_phase = phase,
                                !.autopilot_enabled = enabled]
    /\ twin = NewSimulator("clear", 25)
    /\ flights = 1
    /\ ticks = 0
    /\ commands = 0
    /\ tick_alerts = <<>>
    /\ call = [op |-> "start_flight", arg |-> Fin(0)]
    /\ ret = Returned("bool", TRUE)

\* _apply_drift_mechanics(dt) called on its own; call.arg keeps dt
DriftStepCall ==
    /\ ticks < StepTicks
    /\ \E dt \in StepDtSet, wall \in WallSet :
            LET current_time == 0
            IN  /\ sim' = ApplyDriftMechanics(WallClock(sim, wall), dt, current_time)
                /\ call' = [op |-> "_apply_drift_mechanics", arg |-> Fin(dt)]
    /\ tick_alerts' = NewAlerts(sim.system_alerts, sim'.system_alerts)
    /\ ret' = Returned("none", FALSE)
    /\ ticks' = ticks + 1
    /\ UNCHANGED <<flights, commands, twin>>

\* _apply_autopilot_correction(dt) called on its own; call.arg keeps dt
AutopilotStepCall ==
    /\ ticks < StepTicks
    /\ \E dt \in StepDtSet :
            /\ sim' = ApplyAutopilotCorrection(sim, dt)
            /\ call' = [op |-> "_apply_autopilot_correction", arg |-> Fin(dt)]
    /\ tick_alerts' = NewAlerts(sim.system_alerts, sim'.system_alerts)
    /\ ret' = Returned("none", FALSE)
    /\ ticks' = ticks + 1
    /\ UNCHANGED <<flights, commands, twin>>

StepNext ==
    \/ DriftStepCall
    \/ AutopilotStepCall

StepSpec == StepInit /\ [][StepNext]_vars

(***************************************************************************)
(* A seventh specification: update ticks of a flight set up the way        *)
(* test_autopilot_engine_temperature_management sets it up: started, the   *)
(* autopilot engaged, then placed in CRUISE at cruise speed with a hot     *)
(* engine                                                                  *)
(***************************************************************************)
CoolingTicks == 5

CoolingDtSet == {1, 5, 20}

\* engine_temp as the test assigns it (230), and at the clamp of line 450
CoolingTempSet == {23000, 25000}

CoolingInit ==
    /\ \E engine_temp \in CoolingTempSet :
            LET s == StartedFlight(NewSimulator("clear", 25), LongPlan, 30, "clear", 25)
            IN  sim = [s EXCEPT !.autopilot_enabled = TRUE,
                                !.flight_phase = "cruise",
                                !.elapsed_time = 900,
                                !.airspeed = LongPlan.cruise_speed * 100,
                                !.engine_temp = engine_temp]
    /\ twin = NewSimulator("clear", 25)
    /\ flights = 1
    /\ ticks = 0
    /\ commands = 0
    /\ tick_alerts = <<>>
    /\ call = [op |-> "set_autopilot", arg |-> Fin(0)]
    /\ ret = Returned("none", FALSE)

CoolingNext ==
    TickCall(CoolingTicks, CoolingDtSet, WallSet, NoiseSet, StormDrawSet, ProgressSet)

CoolingSpec == CoolingInit /\ [][CoolingNext]_vars

(***************************************************************************)
(* An eighth specification: one flight of any catalogue aircraft over the  *)
(* 162 nm leg, with the plan calculate_flight_plan returns for it, the     *)
(* autopilot switched at will and ticks that may hold the clock still      *)
(***************************************************************************)
AircraftCatalogue ==
    {"SINGLE_ENGINE_PROPS", "MULTI_ENGINE_PROPS", "JETS_COMMERCIAL",
     "JETS_MILITARY", "SEAPLANES_AMPHIBIANS", "HELICOPTERS_ROTORCRAFT"}

\* calculate_flight_plan for the leg of LongPlan: int(162 / cruise_speed * 60) + 20 minutes
CalculateFlightPlan(aircraft_type) ==
    MakePlan((162 * 60) \div GetAircraftSpecs(aircraft_type).cruise_speed + 20,
             aircraft_type, 162, 41, 34, -8650)

CataloguePlans == {CalculateFlightPlan(aircraft_type) : aircraft_type \in AircraftCatalogue}

\* dt of update_flight, in seconds; 0 holds the flight in its phase
CatalogueDtSet == {0, 300, 3000}

CatalogueInit == InitWith({"clear"}, CrosswindSet)

CatalogueNext ==
    \/ StartCall(1, CataloguePlans, DriftDrawSet, {"clear"}, CrosswindSet)
    \/ TickCall(CatalogueTicks, CatalogueDtSet, {11}, NoiseSet, StormDrawSet, ProgressSet)
    \/ AutopilotCall(1)

CatalogueSpec == CatalogueInit /\ [][CatalogueNext]_vars

(***************************************************************************)
(* Properties                                                              *)
(***************************************************************************)
\* C1: in every state reached through start_flight and update_flight with
\* finite dt >= 0, heading and target_heading are finite and in [0, 360).
HeadingNormalized ==
    InRange360(sim.heading) /\ InRange360(sim.target_heading)

\* C2: apply_course_correction with a non-finite delta (NaN, Infinity) leaves
\* heading at its previous value, which is finite and in [0, 360).
NonFiniteCorrectionIsNoOp ==
    [][(call'.op = "apply_course_correction" /\ ~IsFin(call'.arg))
        => (sim'.heading = sim.heading /\ InRange360(sim'.heading))]_vars

\* C3: an update_flight tick whose drift step runs (the phase of the tick is
\* not TAXI, TAKEOFF or LANDING) while the weather's crosswind_component is
\* NaN leaves heading finite and in [0, 360).
CrosswindNaNFiltered ==
    [][(/\ call'.op = "update_flight"
        /\ Flying
        /\ IsNaN(sim.current_weather.crosswind_component)
        /\ sim'.flight_phase \notin {"taxi", "takeoff", "landing"})
        => InRange360(sim'.heading)]_vars

\* C4: when heading holds NaN, _get_status returns a snapshot without raising
\* and the snapshot reports the fallback heading 0.
StatusNeverFails ==
    (call.op = "_get_status" /\ IsNaN(sim.heading))
        => (ret.kind = "status" /\ ret.value.heading = 0)

\* C5: start_flight called while is_flying is true returns false and leaves
\* every field of the engine unchanged.
NoDoubleStart ==
    [][(call'.op = "start_flight" /\ sim.is_flying)
        => (ret' = Returned("bool", FALSE) /\ sim' = sim)]_vars

\* a start_flight was rejected in the middle of a flight
NoDoubleStartWitness ==
    /\ call.op = "start_flight"
    /\ ret = Returned("bool", FALSE)
    /\ sim.is_flying
    /\ sim.elapsed_time > 0

\* C6: end_flight called while is_flying is false returns the empty summary,
\* raises nothing and leaves every field of the engine unchanged.
EndWithoutFlight ==
    [][(call'.op = "end_flight" /\ ~sim.is_flying)
        => (ret' = Returned("empty", FALSE) /\ sim' = sim)]_vars

\* end_flight was called on a flight the phase machine had already completed
EndWithoutFlightWitness ==
    /\ call.op = "end_flight"
    /\ ret.kind = "empty"
    /\ sim.flight_phase = "completed"

\* C7: from one successful start_flight to the next, no step moves the phase
\* back in the order PREFLIGHT < TAXI < ... < LANDING < COMPLETED.
PhaseNeverRegresses ==
    [][\/ (call'.op = "start_flight" /\ ret'.kind = "bool" /\ ret'.value)
       \/ PhaseIndex(sim'.flight_phase) >= PhaseIndex(sim.flight_phase)]_vars

\* the second tick of a plan shorter than the fixed thresholds: elapsed_time
\* is past the plan's duration and the phase has moved on to CLIMB
PhaseNeverRegressesWitness ==
    /\ call.op = "update_flight"
    /\ ticks >= 2
    /\ sim.current_flight # None
    /\ sim.flight_phase = "climb"
    /\ sim.elapsed_time >= Plan(sim).estimated_time_minutes * 60

\* C8, as claimed: after an update_flight call on a flight, elapsed_time at or
\* past the plan's estimated duration means COMPLETED and is_flying false.
CompletedAtTotalTime ==
    (/\ call.op = "update_flight"
     /\ sim.current_flight # None
     /\ sim.elapsed_time >= Plan(sim).estimated_time_minutes * 60)
        => (sim.flight_phase = "completed" /\ ~sim.is_flying)

\* C8, amended: after an update_flight call on a flight, elapsed_time at or
\* past the plan's estimated duration and at or past the 900 seconds that
\* end the CLIMB window means COMPLETED and is_flying false.
CompletedAtTotalTimePastClimb ==
    (/\ call.op = "update_flight"
     /\ sim.current_flight # None
     /\ sim.elapsed_time >= Plan(sim).estimated_time_minutes * 60
     /\ sim.elapsed_time >= 900)
        => (sim.flight_phase = "completed" /\ ~sim.is_flying)

\* a plan shorter than 900 seconds completed by an update past 900 seconds
CompletedAtTotalTimePastClimbWitness ==
    /\ call.op = "update_flight"
    /\ sim.current_flight # None
    /\ Plan(sim).estimated_time_minutes * 60 < 900
    /\ sim.elapsed_time >= 900
    /\ sim.flight_phase = "completed"
    /\ ~sim.is_flying

\* C9: an update_flight call on a COMPLETED flight leaves every field of the
\* engine unchanged and returns the snapshot.
CompletedAbsorbing ==
    [][(call'.op = "update_flight" /\ sim.flight_phase = "completed")
        => (sim' = sim /\ ret'.kind = "status")]_vars

\* C10: fuel_remaining is between 0 and 100 percent in every state.
FuelInRange ==
    0 <= sim.fuel_remaining /\ sim.fuel_remaining <= 10000

\* an update of a flight in the air burned more fuel than was left
FuelInRangeWitness ==
    /\ call.op = "update_flight"
    /\ sim.fuel_remaining = 0
    /\ sim.elapsed_time > 0


\* C11: engine_temp is between 160 and 250 degrees in every state.
EngineTempInRange ==
    16000 <= sim.engine_temp /\ sim.engine_temp <= 25000

\* a run of taxi ticks cooled the engine down to the lower end of the range
EngineTempInRangeWitness ==
    /\ call.op = "update_flight"
    /\ sim.flight_phase = "taxi"
    /\ ticks >= 9
    /\ sim.engine_temp = 16000


\* C12: once emergency_state is true it stays true through every step that
\* is not a successful start_flight.
EmergencyPersists ==
    [][sim.emergency_state
        => \/ sim'.emergency_state
           \/ (call'.op = "start_flight" /\ ret'.kind = "bool" /\ ret'.value)]_vars

\* a flight that ran out of fuel was ended, and the emergency is still set
EmergencyPersistsWitness ==
    /\ call.op = "end_flight"
    /\ ret.kind = "summary"
    /\ sim.emergency_state
    /\ sim.fuel_remaining < 500


\* C13: when the last update appended "FUEL EMERGENCY", the next update of
\* the flight, with fuel still below 5 percent, does not append it again.
FuelEmergencyOnce ==
    [][(/\ call'.op = "update_flight"
        /\ Flying
        /\ Among("FUEL EMERGENCY", tick_alerts, Len(tick_alerts))
        /\ sim'.fuel_remaining < 500)
        => ~Among("FUEL EMERGENCY", tick_alerts', Len(tick_alerts'))]_vars


\* C14: an update whose systems check leaves engine_temp above 240 degrees,
\* on an alert list that holds no "ENGINE OVERHEATING" at all, appends
\* "ENGINE OVERHEATING".
OverheatingAlerted ==
    [][(/\ call'.op = "update_flight"
        /\ Flying
        /\ sim'.engine_temp > 24000
        /\ ~Among("ENGINE OVERHEATING", sim.system_alerts, Len(sim.system_alerts)))
        => Among("ENGINE OVERHEATING", tick_alerts', Len(tick_alerts'))]_vars


\* C15: system_alerts holds at most 10 entries in every state.
AlertsBounded ==
    Len(sim.system_alerts) <= 10


\* C16: within a flight, an update that advances the simulated clock by less
\* than 10 seconds after an update that appended a course-deviation alert
\* ('Course deviation warning' or 'Autopilot course correction') appends no
\* course-deviation alert.
CourseAlertsSpaced ==
    [][(/\ call'.op = "update_flight"
        /\ Flying
        /\ \/ Among("Course deviation warning", tick_alerts, Len(tick_alerts))
           \/ Among("Autopilot course correction", tick_alerts, Len(tick_alerts))
        /\ sim'.elapsed_time - sim.elapsed_time < 10)
       => /\ ~Among("Course deviation warning", tick_alerts', Len(tick_alerts'))
          /\ ~Among("Autopilot course correction", tick_alerts', Len(tick_alerts'))]_vars


\* C17: for two engines started from the same state and driven by the same
\* update ticks, one with the autopilot and one without, the minimal angular
\* deviation of heading from target_heading with the autopilot never exceeds
\* the deviation without it by more than 5 degrees.
AutopilotReducesDrift ==
    (/\ sim.autopilot_enabled /\ ~twin.autopilot_enabled
     /\ sim.is_flying /\ twin.is_flying
     /\ IsFin(HeadingError(sim.heading, sim.target_heading))
     /\ IsFin(HeadingError(twin.heading, twin.target_heading)))
    => Val(HeadingError(sim.heading, sim.target_heading))
        <= Val(HeadingError(twin.heading, twin.target_heading)) + 500


\* C18: every start_flight that starts a flight, one that follows an earlier
\* flight included, leaves phase PREFLIGHT, elapsed_time 0, fuel_remaining
\* 100, engine_temp 180, airspeed 0, progress_percent 0, off_course_distance
\* 0, no system_alerts, emergency_state false, course_deviations 0 and
\* system_alerts_count 0.
StartFlightResets ==
    [][(call'.op = "start_flight" /\ ret'.kind = "bool" /\ ret'.value)
       => /\ sim'.flight_phase = "preflight"
          /\ sim'.elapsed_time = 0
          /\ sim'.fuel_remaining = 10000
          /\ sim'.engine_temp = 18000
          /\ sim'.airspeed = 0
          /\ sim'.progress_percent = 0
          /\ sim'.off_course_distance = 0
          /\ sim'.system_alerts = <<>>
          /\ ~sim'.emergency_state
          /\ sim'.course_deviations = 0
          /\ sim'.system_alerts_count = 0]_vars


\* C19: for a flight whose plan has distance 0, update_flight returns without
\* raising and leaves progress_percent between 0 and 100.
ZeroDistanceUpdates ==
    (/\ call.op = "update_flight"
     /\ sim.current_flight # None
     /\ Plan(sim).distance_nm = 0)
    => (/\ ret.kind = "status"
        /\ 0 <= sim.progress_percent /\ sim.progress_percent <= 10000)


AlertsCounted ==
    [][(call'.op = "update_flight" /\ Flying)
        => sim'.system_alerts_count = sim.system_alerts_count + Len(tick_alerts')]_vars


NoHeadingChangeOnGround ==
    [][(/\ call'.op = "update_flight"
        /\ Flying
        /\ sim'.flight_phase \in {"taxi", "takeoff", "landing"})
       => sim'.heading = sim.heading]_vars

\* a LANDING tick with the autopilot engaged left the heading more than 20
\* degrees off the target
NoHeadingChangeOnGroundWitness ==
    /\ call.op = "update_flight"
    /\ sim.is_flying
    /\ sim.flight_phase = "landing"
    /\ sim.autopilot_enabled
    /\ IsFin(sim.heading)
    /\ FGt(HeadingError(sim.heading, sim.target_heading), 2000)
    /\ FGt(sim.drift_rate, 0)


\* C24: in CLIMB, CRUISE, DESCENT or APPROACH with the autopilot enabled, one
\* autopilot step moves heading by exactly min(|e|, 1.5 * dt) toward the
\* target, e being the signed shortest-path error, when |e| > 0.2, and leaves
\* it unchanged when |e| <= 0.2; the error never changes sign.
AutopilotStepExact ==
    [][(/\ call'.op = "_apply_autopilot_correction"
        /\ sim.autopilot_enabled
        /\ sim.flight_phase \in {"climb", "cruise", "descent", "approach"}
        /\ IsFin(sim.heading))
       => LET dt == Val(call'.arg)
              raw == Val(sim.target_heading) - Val(sim.heading)
              e == IF raw > 18000 THEN raw - 36000
                   ELSE IF raw < -18000 THEN raw + 36000 ELSE raw
              abs_e == IF e < 0 THEN -e ELSE e
              moved == Min(abs_e, 150 * dt)
              raw_after == Val(sim'.target_heading) - Val(sim'.heading)
              e_after == IF raw_after > 18000 THEN raw_after - 36000
                         ELSE IF raw_after < -18000 THEN raw_after + 36000
                         ELSE raw_after
          IN  /\ InRange360(sim'.heading)
              /\ sim'.target_heading = sim.target_heading
              /\ IF abs_e > 20
                 THEN e_after = (IF e > 0 THEN abs_e - moved ELSE moved - abs_e)
                 ELSE sim'.heading = sim.heading]_vars

\* an autopilot step of 20 seconds turned a heading that was 45.01 degrees
\* off by its 30 degrees and left it 15.01 degrees off
AutopilotStepExactWitness ==
    /\ call.op = "_apply_autopilot_correction"
    /\ call.arg = Fin(20)
    /\ ticks = 1
    /\ sim.autopilot_enabled
    /\ sim.flight_phase = "cruise"
    /\ HeadingError(sim.heading, sim.target_heading) = Fin(1501)


\* C26: every update tick of a flight multiplies drift_rate by 1.5 when the
\* weather after the tick is TURBULENCE, by 1.2 when it is MODERATE_WIND, and
\* leaves it unchanged in any other weather.
DriftRateCompounds ==
    [][(call'.op = "update_flight" /\ Flying /\ IsFin(sim.drift_rate))
        => sim'.drift_rate =
            Overflow(Quot(Val(sim.drift_rate)
                          * (CASE sim'.current_weather.condition = "turbulence" -> 15
                               [] sim'.current_weather.condition = "moderate_wind" -> 12
                               [] OTHER -> 10),
                          10))]_vars


\* C27: a drift step in a drifting phase that leaves the heading error above
\* the critical threshold (45 degrees, 60 with the autopilot) increments
\* course_deviations, adds 0.03 * dt to off_course_distance and, when more
\* than 10 seconds have passed since the last course alert (here: none was
\* appended since the start), appends 'Course deviation warning', or with
\* the autopilot and an error above 90 degrees 'Autopilot course
\* correction'; an error above the warning threshold (20 degrees, 30 with
\* the autopilot) only adds to off_course_distance; a smaller one changes
\* none of them.
CourseBookkeeping ==
    [][(/\ call'.op = "_apply_drift_mechanics"
        /\ sim.flight_phase \notin {"taxi", "takeoff", "landing"})
       => LET error == HeadingError(sim'.heading, sim'.target_heading)
              dt == Val(call'.arg)
              warning == IF sim.autopilot_enabled THEN 3000 ELSE 2000
              critical == IF sim.autopilot_enabled THEN 6000 ELSE 4500
              none_yet ==
                  /\ ~Among("Course deviation warning", sim.system_alerts,
                            Len(sim.system_alerts))
                  /\ ~Among("Autopilot course correction", sim.system_alerts,
                            Len(sim.system_alerts))
          IN  IF FGt(error, critical)
              THEN /\ sim'.course_deviations = sim.course_deviations + 1
                   /\ sim'.off_course_distance = sim.off_course_distance + 3 * dt
                   /\ (none_yet /\ ~sim.autopilot_enabled)
                        => tick_alerts' = <<"Course deviation warning">>
                   /\ (none_yet /\ sim.autopilot_enabled /\ FGt(error, 9000))
                        => tick_alerts' = <<"Autopilot course correction">>
                   /\ (sim.autopilot_enabled /\ ~FGt(error, 9000))
                        => tick_alerts' = <<>>
              ELSE IF FGt(error, warning)
              THEN /\ sim'.course_deviations = sim.course_deviations
                   /\ sim'.off_course_distance = sim.off_course_distance + 3 * dt
                   /\ tick_alerts' = <<>>
              ELSE /\ sim'.course_deviations = sim.course_deviations
                   /\ sim'.off_course_distance = sim.off_course_distance
                   /\ tick_alerts' = <<>>]_vars


OneActiveFlight ==
    [][/\ sim'.is_flying
            => (sim'.current_flight # None /\ sim'.flight_phase # "completed")
       /\ (call'.op = "start_flight" /\ sim.is_flying)
            => (sim'.current_flight = sim.current_flight /\ sim'.is_flying)
       /\ (call'.op = "start_flight" /\ ~sim.is_flying)
            => (ret' = Returned("bool", TRUE) /\ sim'.is_flying)]_vars

\* a second flight was started on an engine whose first flight the phase
\* machine had completed or end_flight had closed
OneActiveFlightWitness ==
    /\ call.op = "start_flight"
    /\ ret = Returned("bool", TRUE)
    /\ flights = 2
    /\ sim.is_flying
    /\ sim.flight_phase = "preflight"


\* C30: on a flight of a catalogue aircraft, started from the plan
\* calculate_flight_plan returns and driven by the public operations,
\* engine_temp never exceeds 220 degrees, and none of "Engine temperature
\* high", "ENGINE OVERHEATING" and "Autopilot reducing speed for cooling" is
\* ever among the alerts.
EngineStaysCool ==
    /\ sim.engine_temp <= 22000
    /\ \A alert \in {"Engine temperature high", "ENGINE OVERHEATING",
                     "Autopilot reducing speed for cooling"} :
            /\ ~Among(alert, sim.system_alerts, Len(sim.system_alerts))
            /\ ~Among(alert, tick_alerts, Len(tick_alerts))

\* the rotorcraft, whose 100 knots of cruise are the lowest of the
\* catalogue, has climbed at 90 knots or more under the autopilot until its
\* engine ran warmer than 190 degrees
EngineStaysCoolWitness ==
    /\ call.op = "update_flight"
    /\ sim.current_flight # None
    /\ Plan(sim).aircraft_type = "HELICOPTERS_ROTORCRAFT"
    /\ sim.flight_phase = "climb"
    /\ sim.autopilot_enabled
    /\ sim.engine_temp > 19000

=============================================================================
